---- MODULE Spec2Model ----
(***************************************************************************)
(* A model of bbfreeze/modulegraph/modulegraph.py: the ModuleGraph import  *)
(* resolution engine, its node model, the lazy registry and the bytecode   *)
(* scanner.                                                                *)
(*                                                                         *)
(* Dotted identifiers are sequences of components (<<"pkg","sub">> is      *)
(* "pkg.sub"); a script path "/s4.py" is <<"/s4","py">>, so that the       *)
(* string operations of the code (count('.'), split('.'), rfind('.'))      *)
(* act on it as they do on the path.  Node objects live in a heap          *)
(* (g.objs) and are referred to by their index (0 is None), so that two    *)
(* distinct objects with one identifier can be told apart.  Every method   *)
(* is an operator taking the engine state g and returning                  *)
(* [g, r, exc]: the state after the call, the return value and the         *)
(* exception that escaped ("" when the call returned).                     *)
(***************************************************************************)
EXTENDS Integers, Sequences, FiniteSets, TLC

\* G is the engine; packagePathMap and replacePackageMap are the module-level
\* tables of the process it runs in (an engine method reads them as
\* g.packagePathMap, g.replacePackageMap); G0 is the same build, given the
\* same requests, in a process whose tables nobody wrote to.
VARIABLES G, G0, config, packagePathMap, replacePackageMap, calls, last

vars == <<G, G0, config, packagePathMap, replacePackageMap, calls, last>>

(***************************************************************************)
(* Bounds of the model.                                                    *)
(***************************************************************************)
\* number of top-level requests made of one engine
MaxCalls == 2
\* nesting of load_module calls after which Python's recursion limit is
\* taken to be hit (RuntimeError: maximum recursion depth exceeded)
MaxDepth == 7

(***************************************************************************)
(* Generic helpers.                                                        *)
(***************************************************************************)
None == 0

NoExc == ""

Range(s) == {s[i] : i \in DOMAIN s}

\* str.count('.') of an identifier ("" has no dot)
CountDots(name) == IF Len(name) = 0 THEN 0 ELSE Len(name) - 1

\* ".".join(name.split(".")[:-level])
DropLast(name, level) ==
    IF level >= Len(name) THEN <<>> ELSE SubSeq(name, 1, Len(name) - level)

IsImportError(e) ==
    e \in {"ImportError: relative importpath too deep",
           "ImportError: No module named",
           "ImportError: Bad magic number",
           "ImportError: already included"}

Ret(g, r) == [g |-> g, r |-> r, exc |-> NoExc]

Raise(g, e) == [g |-> g, r |-> None, exc |-> e]

\* a set in a fixed order of iteration
RECURSIVE SetToSeq(_)
SetToSeq(S) ==
    IF S = {} THEN <<>>
    ELSE LET x == CHOOSE y \in S : TRUE
         IN <<x>> \o SetToSeq(S \ {x})

(***************************************************************************)
(* Compiled-code handles.  An instruction is [op, arg]; the argument of    *)
(* LOAD_CONST / IMPORT_NAME / STORE_NAME is the constant or name that the  *)
(* operand indexes (consts[oparg], names[oparg]).  co_consts lists the     *)
(* constants of the unit that matter to the scanner: nested code handles.  *)
(***************************************************************************)
Code(ins, consts, fn) == [co_code |-> ins, co_consts |-> consts, co_filename |-> fn]

ConstCode(co) == [k |-> "code", v |-> co]

Store(n) == <<[op |-> "STORE_NAME", arg |-> n]>>

StoreGlobal(n) == <<[op |-> "STORE_GLOBAL", arg |-> n]>>

PopTop == <<[op |-> "POP_TOP", arg |-> 0]>>

\* import statement compiled by Python >= 2.5: LOAD_CONST level,
\* LOAD_CONST fromlist, IMPORT_NAME name  (fromlist <<>> is None)
Imp(level, fromlist, name) ==
    << [op |-> "LOAD_CONST", arg |-> level],
       [op |-> "LOAD_CONST", arg |-> fromlist],
       [op |-> "IMPORT_NAME", arg |-> name] >>

(***************************************************************************)
(* The module universe the engine is run on: the directories of the        *)
(* search path and what imp.find_module finds in them.                     *)
(***************************************************************************)
SrcFile(path, ins) ==
    [typ |-> "PY_SOURCE", pathname |-> path, magic |-> TRUE,
     co |-> Code(ins, <<>>, path)]

SrcFileNested(path, ins, consts) ==
    [typ |-> "PY_SOURCE", pathname |-> path, magic |-> TRUE,
     co |-> Code(ins, consts, path)]

PycFile(path, ok, ins) ==
    [typ |-> "PY_COMPILED", pathname |-> path, magic |-> ok,
     co |-> Code(ins, <<>>, path)]

PkgDir(path) ==
    [typ |-> "PKG_DIRECTORY", pathname |-> path, magic |-> TRUE,
     co |-> Code(<<>>, <<>>, path)]

ExtFile(path) ==
    [typ |-> "C_EXTENSION", pathname |-> path, magic |-> TRUE,
     co |-> Code(<<>>, <<>>, path)]

\* sys.path given to the engine
SysPath == <<"/lib">>

\* sys.builtin_module_names
BuiltinModuleNames == {"sys"}

FS ==
    [ d \in {"/lib", "/lib/pkg", "/lib/p", "/lib/q", "/lib/q/p2", "/lib/bp", "/lib/ap",
              "/extra"} |->
      CASE d = "/lib" ->
             ( "pkg"    :> PkgDir("/lib/pkg")
            @@ "p"      :> PkgDir("/lib/p")
            @@ "q"      :> PkgDir("/lib/q")
            @@ "bp"     :> PkgDir("/lib/bp")
            @@ "ap"     :> PkgDir("/lib/ap")
            @@ "relroot" :> SrcFile("/lib/relroot.py",
                              Imp(1, <<"y">>, <<>>) \o Store("AFTER"))
            @@ "wm"     :> SrcFile("/lib/wm.py",
                              Imp(-1, <<"*">>, <<"p">>) \o Store("W"))
            @@ "top"    :> SrcFile("/lib/top.py", Store("T"))
            @@ "tm"     :> SrcFile("/lib/tm.py",
                              Imp(1, <<"y">>, <<"x">>) \o Store("TM"))
            @@ "miss"   :> SrcFile("/lib/miss.py",
                              Imp(-1, <<>>, <<"nomod">>)
                              \o Imp(-1, <<>>, <<"pkg", "nosub">>)
                              \o Imp(-1, <<"nofrom">>, <<"pkg">>))
            @@ "usebad" :> SrcFile("/lib/usebad.py",
                              Imp(-1, <<>>, <<"badc">>) \o Imp(-1, <<>>, <<"bp">>))
            @@ "badc"   :> PycFile("/lib/badc.pyc", FALSE, Store("never"))
            @@ "goodc"  :> PycFile("/lib/goodc.pyc", TRUE,
                              PopTop \o Imp(0, <<>>, <<"top">>) \o Imp(-1, <<>>, <<"sys">>))
            @@ "nest"   :> SrcFileNested("/lib/nest.py",
                              Store("N") \o Store("K"),
                              <<ConstCode(Code(Store("inner"), <<>>, "/lib/nest.py"))>>)
            @@ "sw"     :> SrcFile("/lib/sw.py", Imp(-1, <<"*">>, <<"sys">>))
            @@ "ext"    :> ExtFile("/lib/ext.so") )
        [] d = "/lib/pkg" ->
             ( "__init__" :> SrcFile("/lib/pkg/__init__.py", <<>>)
            @@ "sub"      :> SrcFile("/lib/pkg/sub.py",
                                Imp(-1, <<>>, <<"pkg", "missing">>))
            @@ "rel"      :> SrcFile("/lib/pkg/rel.py",
                                Imp(1, <<"sub">>, <<>>)
                                \o Imp(2, <<"T">>, <<"top">>))
            @@ "rt"       :> SrcFile("/lib/pkg/rt.py",
                                Imp(1, <<"T">>, <<"top">>)) )
        [] d = "/lib/p" ->
             ( "__init__" :> SrcFile("/lib/p/__init__.py",
                                Imp(-1, <<>>, <<"wm">>) \o Store("A") \o Store("B")) )
        [] d = "/lib/q" ->
             ( "__init__" :> SrcFile("/lib/q/__init__.py", Store("Q"))
            @@ "p2"       :> PkgDir("/lib/q/p2")
            @@ "w"        :> SrcFile("/lib/q/w.py",
                                Imp(-1, <<"*">>, <<"p2">>))
            @@ "rs"       :> SrcFile("/lib/q/rs.py",
                                Imp(1, <<"*">>, <<"p2">>))
            @@ "x"        :> SrcFile("/lib/q/x.py",
                                Imp(-1, <<>>, <<"q">>))
            @@ "fz"       :> SrcFile("/lib/q/fz.py",
                                Imp(-1, <<"zz">>, <<"p2">>)) )
        [] d = "/lib/q/p2" ->
             ( "__init__" :> SrcFile("/lib/q/p2/__init__.py", Store("C")) )
        [] d = "/lib/bp" ->
             ( "__init__" :> PycFile("/lib/bp/__init__.pyc", FALSE, Store("never")) )
        [] d = "/lib/ap" ->
             ( "__init__" :> SrcFile("/lib/ap/__init__.py",
                                Imp(1, <<"top">>, <<>>)
                                \o Imp(0, <<"*">>, <<"top">>))
            @@ "top"      :> SrcFile("/lib/ap/top.py", Store("SUBT"))
            @@ "u"        :> SrcFile("/lib/ap/u.py",
                                Imp(-1, <<>>, <<"top">>)
                                \o Imp(-1, <<>>, <<"sys">>)
                                \o Imp(-1, <<>>, <<"nomod">>)) )
        [] d = "/extra" ->
             ( "xtra"     :> SrcFile("/extra/xtra.py", Store("X")) ) ]

\* the scripts run_script can be given: path |-> compiled text
ScriptFiles ==
    ( <<"/s4", "py">> :> Code(Imp(-1, <<>>, <<"pkg", "sub">>), <<>>, "/s4.py")
   @@ <<"/s6", "py">> :> Code(Imp(1, <<"T">>, <<"top">>), <<>>, "/s6.py")
   @@ <<"/s2", "py">> :> Code(Imp(-1, <<>>, <<"nomod">>)
                               \o Imp(-1, <<"nofrom">>, <<"pkg">>)
                               \o Imp(-1, <<>>, <<"miss">>), <<>>, "/s2.py") )

\* sys.modules entries that have a __path__ and no __file__ (namespace
\* packages installed without an __init__): name |-> __path__
SysModulesPath == ( <<"nsp">> :> <<"/extra">> )

\* imp.find_module(name, path): the first directory of path holding name
RECURSIVE ImpFindModule(_, _)
ImpFindModule(name, path) ==
    IF path = <<>> THEN [found |-> FALSE]
    ELSE IF Head(path) \in DOMAIN FS /\ name \in DOMAIN FS[Head(path)]
         THEN [found |-> TRUE, entry |-> FS[Head(path)][name]]
         ELSE ImpFindModule(name, Tail(path))

\* os.listdir(path) filtered by moduleInfoForPath: the names of the files
\* with a module suffix (a package directory has none)
ListModules(dir) ==
    IF dir \in DOMAIN FS
    THEN {n \in DOMAIN FS[dir] : FS[dir][n].typ # "PKG_DIRECTORY"}
    ELSE {}

(***************************************************************************)
(* Node model.  A Node object is a record in the heap g.objs; its          *)
(* namespace dict and its globalnames set are objects of their own         *)
(* (g.ns, g.gn), named by the index of the Node that created them, since   *)
(* AliasNode.__init__ stores the target's dict and set, not copies.        *)
(***************************************************************************)
EmptyMap == [x \in {} |-> None]

NoCode == Code(<<>>, <<>>, "")

\* Node.__init__(identifier)
Node(oid, cls, identifier) ==
    [cls |-> cls, graphident |-> identifier, identifier |-> identifier,
     namespace |-> oid, globalnames |-> oid, starimports |-> {},
     startimports |-> "unset",
     filename |-> "", haspath |-> FALSE, packagepath |-> <<>>,
     hascode |-> FALSE, code |-> NoCode]

\* Script.__init__(filename): the identifier is the path
Script(oid, filename) ==
    [Node(oid, "Script", filename) EXCEPT !.filename = ScriptFiles[filename].co_filename]

\* AliasNode.__init__(name, node): the listed attributes are read off node
\* with getattr(node, k, None); no Node has a 'startimports' attribute
AliasNode(oid, name, node) ==
    [Node(oid, "AliasNode", name) EXCEPT
        !.identifier = node.identifier,
        !.haspath = node.haspath,
        !.packagepath = node.packagepath,
        !.namespace = node.namespace,
        !.globalnames = node.globalnames,
        !.startimports = "None"]

\* bool(node.packagepath)
HasPackagePath(n) == n.haspath /\ n.packagepath # <<>>

(***************************************************************************)
(* altgraph.ObjectGraph, the base class of ModuleGraph: the node table     *)
(* (identifier -> node data) and the edge list.  The graph object itself   *)
(* is the root node, with no node data.                                    *)
(***************************************************************************)
RootIdent == <<"<ModuleGraph>">>

EmptyGraph(lazy) ==
    [objs |-> <<>>, nodes |-> EmptyMap, edges |-> <<>>, lazynodes |-> lazy,
     ns |-> EmptyMap, gn |-> EmptyMap, depth |-> 0,
     resolved |-> {}, reresolved |-> {}, hooks |-> {}, recovered |-> {}, badmagic |-> {},
     scans |-> <<>>, scandone |-> {}, popped |-> <<>>, lazydone |-> {},
     aliased |-> EmptyMap, scanraised |-> {}, parents |-> {}, heads |-> {},
     packages |-> {},
     packagePathMap |-> EmptyMap, replacePackageMap |-> EmptyMap]

\* ObjectGraph.findNode: graph.node_data(ident), None on KeyError
ObjectGraph_findNode(g, name) ==
    IF name \in DOMAIN g.nodes THEN g.nodes[name] ELSE None

\* what the attributes AliasNode.__init__ reads off node hold at that time
AliasSnapshot(g, node) ==
    [target |-> node,
     namespace |-> g.ns[g.objs[node].namespace],
     globalnames |-> g.gn[g.objs[node].globalnames],
     starimports |-> g.objs[node].starimports,
     haspath |-> g.objs[node].haspath,
     packagepath |-> g.objs[node].packagepath]

\* cls(name, *args) followed by ObjectGraph.addNode(m): Graph.add_node
\* keeps the node data an identifier already has
Construct(g, cls, name, other) ==
    LET oid == Len(g.objs) + 1
        rec == IF cls = "AliasNode" THEN AliasNode(oid, name, g.objs[other])
               ELSE IF cls = "Script" THEN Script(oid, name)
               ELSE Node(oid, cls, name)
    IN  [g EXCEPT !.objs = Append(@, rec),
                  !.ns = (oid :> EmptyMap) @@ @,
                  !.gn = (oid :> {}) @@ @,
                  !.nodes = IF name \in DOMAIN @ THEN @ ELSE (name :> oid) @@ @,
                  !.aliased = IF cls = "AliasNode"
                              THEN (oid :> AliasSnapshot(g, other)) @@ @ ELSE @]

\* ModuleGraph.createReference -> ObjectGraph.createReference ->
\* Graph.add_edge(fromident, toident, edge_data): a new edge on every call
createReference(g, fromnode, tonode) ==
    LET fromident == IF fromnode = None THEN RootIdent
                     ELSE g.objs[fromnode].graphident
    IN  IF tonode = None THEN g
        ELSE [g EXCEPT !.edges = Append(@, <<fromident, g.objs[tonode].graphident, "direct">>)]

\* record that resolving name gave the Node object oid
Resolved(res, name) ==
    IF res.exc = NoExc /\ res.r # None
    THEN [res EXCEPT !.g.resolved = @ \cup {<<name, res.r>>},
                     !.g.reresolved = IF \E e \in res.g.resolved : e[1] = name
                                      THEN @ \cup {name} ELSE @]
    ELSE res

(***************************************************************************)
(* Instruction decoder.                                                    *)
(***************************************************************************)
STORE_OPS == {"STORE_NAME", "STORE_GLOBAL"}

RECURSIVE scan_opcodes_25(_)
scan_opcodes_25(code) ==
    IF code = <<>> THEN <<>>
    ELSE LET c == code[1] IN
         IF c.op \in STORE_OPS
         THEN <<[what |-> "store", level |-> 0, fromlist |-> <<>>, name |-> c.arg]>>
              \o scan_opcodes_25(Tail(code))
         ELSE IF /\ Len(code) >= 3
                 /\ c.op = "LOAD_CONST"
                 /\ code[2].op = "LOAD_CONST"
                 /\ code[3].op = "IMPORT_NAME"
         THEN LET level == c.arg
                  ev == IF level = -1
                        THEN [what |-> "import", level |-> -1,
                              fromlist |-> code[2].arg, name |-> code[3].arg]
                        ELSE IF level = 0
                        THEN [what |-> "absolute_import", level |-> 0,
                              fromlist |-> code[2].arg, name |-> code[3].arg]
                        ELSE [what |-> "relative_import", level |-> level,
                              fromlist |-> code[2].arg, name |-> code[3].arg]
              IN <<ev>> \o scan_opcodes_25(SubSeq(code, 4, Len(code)))
         ELSE scan_opcodes_25(Tail(code))

(***************************************************************************)
(* The resolution engine: class ModuleGraph.  A method calls another       *)
(* (self.method(...)) through Call("method", <<arguments>>), defined after *)
(* the methods; the result of a call is handed to a local operator that    *)
(* holds the statements following the call.                                *)
(***************************************************************************)
RECURSIVE Call(_, _), RefAll(_, _, _)

\* the value v returned after the call that ended as r
Then(r, v) == IF r.exc # NoExc THEN r ELSE Ret(r.g, v)

\* for m in modules: self.createReference(fromnode, m)
RefAll(g, fromnode, os) ==
    IF os = <<>> THEN g
    ELSE RefAll(createReference(g, fromnode, Head(os)), fromnode, Tail(os))

\* createNode without the lookup of an existing node
createNodeNoMemo(g, cls, name, other) ==
    Ret(Construct(g, cls, name, other), Len(g.objs) + 1)

\* createNode whose lookup is ObjectGraph.findNode, which does not look
\* into the lazy registry
createNodePlainLookup(g, cls, name, other) ==
    IF ObjectGraph_findNode(g, name) # None THEN Ret(g, ObjectGraph_findNode(g, name))
    ELSE Ret(Construct(g, cls, name, other), Len(g.objs) + 1)

\* ObjectGraph.createNode(cls, name, *args): the lookup is self.findNode,
\* that is ModuleGraph.findNode
createNode(g, cls, name, other) ==
    LET Found(f) ==
          IF f.exc # NoExc \/ f.r # None THEN f
          ELSE Ret(Construct(f.g, cls, name, other), Len(f.g.objs) + 1)
    IN Found(Call("findNode", <<g, name>>))

\* the registry emptied where one entry is to be taken out
PopLazyAll(g, name) ==
    [g EXCEPT !.lazynodes = EmptyMap, !.popped = Append(@, name)]

\* deps = self.lazynodes.pop(name)
PopLazy(g, name) ==
    [g EXCEPT !.lazynodes = [n \in (DOMAIN @) \ {name} |-> @[n]],
              !.popped = Append(@, name)]

\* ModuleGraph.findNode(name)
findNode(g, name) ==
    IF ObjectGraph_findNode(g, name) # None
    THEN Resolved(Ret(g, ObjectGraph_findNode(g, name)), name)
    ELSE IF name \in DOMAIN g.lazynodes
    THEN LET Done(res) ==
               IF res.exc # NoExc THEN res
               ELSE Resolved([res EXCEPT !.g.lazydone = @ \cup {name}], name)
             Aliased(r1) ==
               IF r1.exc # NoExc THEN r1
               ELSE LET Linked(r2, other) ==
                          IF r2.exc # NoExc THEN r2
                          ELSE Then(Call("implyNodeReference", <<r2.g, r2.r,
                                                       [k |-> "node", v |-> other]>>),
                                    r2.r)
                        Created(other) ==
                          Linked(Call("createNode", <<r1.g, "AliasNode", name, other>>), other)
                    IN Created(CHOOSE o \in r1.r : TRUE)
             Implied(r1, deps) ==
               IF r1.exc # NoExc THEN r1
               ELSE LET With(m) == Then(Call("ImplyAll", <<r1.g, m, deps>>), m)
                    IN With(CHOOSE o \in r1.r : TRUE)
             Lazy(g1, deps) ==
               IF deps.kind = "excluded"
               THEN Call("createNode", <<g1, "ExcludedModule", name, None>>)
               ELSE IF deps.kind = "alias"
               THEN Aliased(Call("safe_import_hook", <<g1, deps.target, None, <<>>, -1>>))
               ELSE Implied(Call("safe_import_hook", <<g1, name, None, <<>>, -1>>), deps.deps)
         IN Done(Lazy(PopLazy(g, name), g.lazynodes[name]))
    ELSE Ret(g, None)

\* for dep in deps: self.implyNodeReference(m, dep)
ImplyAll(g, m, deps) ==
    IF deps = <<>> THEN Ret(g, None)
    ELSE LET Next1(r) == IF r.exc # NoExc THEN r ELSE Call("ImplyAll", <<r.g, m, Tail(deps)>>)
         IN Next1(Call("implyNodeReference", <<g, m, [k |-> "name", v |-> Head(deps)]>>))

\* ModuleGraph.implyNodeReference(node, other); other is a module name
\* ([k |-> "name"]) or a Node ([k |-> "node"])
implyNodeReference(g, node, other) ==
    IF other.k = "name"
    THEN LET Others(r) ==
               IF r.exc # NoExc THEN r
               ELSE Ret(RefAll(r.g, node, SetToSeq(r.r)), None)
         IN Others(Call("import_hook", <<g, other.v, node, <<>>, -1>>))
    ELSE IF g.objs[other.v].cls = "AliasNode"
    \* self.addNode(other) leaves the graph as it is; Node has no connectTo
    THEN Raise(g, "AttributeError")
    ELSE Ret(createReference(g, node, other.v), None)

\* record the outcome of an import_hook call
HookLog(g, res, name, caller, fromlist, level) ==
    [res EXCEPT !.g.hooks = @ \cup
        {[caller |-> IF caller = None THEN RootIdent ELSE g.objs[caller].graphident,
          name |-> name, fromlist |-> fromlist, level |-> level, exc |-> res.exc,
          ret |-> IF res.exc = NoExc
                  THEN {res.g.objs[o].graphident : o \in res.r} ELSE {}]}]

\* import_hook linking the requester to the head package as well
import_hookLinkHead(g, name, caller, fromlist, level) ==
    LET Linked(e, m, q) ==
          IF e.exc # NoExc THEN e
          ELSE Ret(RefAll(e.g, caller, SetToSeq({m, q} \cup e.r)), {m} \cup e.r)
        Leaf(t, q) ==
          IF t.exc # NoExc THEN t
          ELSE Linked(IF fromlist # <<>> /\ HasPackagePath(t.g.objs[t.r])
                      THEN Call("ensure_fromlist", <<t.g, t.r, fromlist>>)
                      ELSE Ret(t.g, {}),
                      t.r, q)
        Headed(h) ==
          IF h.exc # NoExc THEN h ELSE Leaf(Call("load_tail", <<h.g, h.r, Tail(name)>>), h.r)
        Parent(p) ==
          IF p.exc # NoExc THEN p ELSE Headed(Call("find_head_package", <<p.g, p.r, name>>))
    IN HookLog(g, Parent(Call("determine_parent", <<g, caller, level>>)),
               name, caller, fromlist, level)

\* ModuleGraph.import_hook(name, caller, fromlist, level)
import_hook(g, name, caller, fromlist, level) ==
    LET Linked(e, m) ==
          IF e.exc # NoExc THEN e
          ELSE Ret(RefAll(e.g, caller, SetToSeq({m} \cup e.r)), {m} \cup e.r)
        Leaf(t) ==
          IF t.exc # NoExc THEN t
          ELSE Linked(IF fromlist # <<>> /\ HasPackagePath(t.g.objs[t.r])
                      THEN Call("ensure_fromlist", <<t.g, t.r, fromlist>>)
                      ELSE Ret(t.g, {}),
                      t.r)
        Headed(h) ==
          IF h.exc # NoExc THEN h ELSE Leaf(Call("load_tail", <<h.g, h.r, Tail(name)>>))
        Parent(p) ==
          IF p.exc # NoExc THEN p ELSE Headed(Call("find_head_package", <<p.g, p.r, name>>))
    IN HookLog(g, Parent(Call("determine_parent", <<g, caller, level>>)),
               name, caller, fromlist, level)

\* parent = self.findNode(pname); assert parent is caller
FindSelf(f, caller) ==
    IF f.exc # NoExc THEN f
    ELSE IF f.r # caller THEN Raise(f.g, "AssertionError")
    ELSE f

\* parent = self.findNode(pname); if parent: assert parent.identifier == pname
FindNamed(f, pname) ==
    IF f.exc # NoExc THEN f
    ELSE IF f.r # None /\ f.g.objs[f.r].identifier # pname
    THEN Raise(f.g, "AssertionError")
    ELSE f

\* record the outcome of a determine_parent call
ParentLog(caller, level, res) ==
    [res EXCEPT !.g.parents = @ \cup
        {[caller |-> IF caller = None THEN RootIdent ELSE res.g.objs[caller].graphident,
          identifier |-> IF caller = None THEN <<>> ELSE res.g.objs[caller].identifier,
          pkg |-> caller # None /\ HasPackagePath(res.g.objs[caller]),
          level |-> level, exc |-> res.exc,
          found |-> res.exc = NoExc /\ res.r # None,
          parent |-> IF res.exc = NoExc /\ res.r # None
                     THEN res.g.objs[res.r].graphident ELSE <<>>,
          parentpkg |-> res.exc = NoExc /\ res.r # None /\ HasPackagePath(res.g.objs[res.r])]}]

\* determine_parent in which a package requester does not use up one level
determine_parentNoSelfStep(g, caller, level) ==
    LET Rel(pname, lv) ==
          IF lv = 0 THEN FindSelf(Call("findNode", <<g, pname>>), caller)
          ELSE IF CountDots(pname) < lv
          THEN Raise(g, "ImportError: relative importpath too deep")
          ELSE Call("findNode", <<g, DropLast(pname, lv)>>)
        Of(c) ==
          IF level >= 1
          THEN Rel(c.identifier, level)
          ELSE IF HasPackagePath(c)
          THEN FindSelf(Call("findNode", <<g, c.identifier>>), caller)
          ELSE IF Len(c.identifier) > 1
          THEN FindNamed(Call("findNode", <<g, DropLast(c.identifier, 1)>>),
                         DropLast(c.identifier, 1))
          ELSE Ret(g, None)
    IN ParentLog(caller, level,
                 IF caller = None \/ level = 0 THEN Ret(g, None) ELSE Of(g.objs[caller]))

\* ModuleGraph.determine_parent(caller, level)
determine_parent(g, caller, level) ==
    LET Rel(pname, lv) ==
          IF lv = 0 THEN FindSelf(Call("findNode", <<g, pname>>), caller)
          ELSE IF CountDots(pname) < lv
          THEN Raise(g, "ImportError: relative importpath too deep")
          ELSE Call("findNode", <<g, DropLast(pname, lv)>>)
        Of(c) ==
          IF level >= 1
          THEN Rel(c.identifier, IF HasPackagePath(c) THEN level - 1 ELSE level)
          ELSE IF HasPackagePath(c)
          THEN FindSelf(Call("findNode", <<g, c.identifier>>), caller)
          ELSE IF Len(c.identifier) > 1
          THEN FindNamed(Call("findNode", <<g, DropLast(c.identifier, 1)>>),
                         DropLast(c.identifier, 1))
          ELSE Ret(g, None)
    IN ParentLog(caller, level,
                 IF caller = None \/ level = 0 THEN Ret(g, None) ELSE Of(g.objs[caller]))

\* the name find_head_package tries first: the head under the parent
Qualified(g, parent, name) ==
    IF parent # None THEN Append(g.objs[parent].identifier, Head(name))
    ELSE <<Head(name)>>

\* the submodule parent.head can be had: it is a node already, or a
\* directory of the parent's search path holds it
SubResolvable(g, parent, name) ==
    /\ parent # None
    /\ \/ Qualified(g, parent, name) \in DOMAIN g.nodes
       \/ /\ HasPackagePath(g.objs[parent])
          /\ ImpFindModule(Head(name), g.objs[parent].packagepath).found

\* record the outcome of a find_head_package call: hit1 says that the
\* first import_module returned a node, tried2 that a second one was made
HeadLog(g, parent, name, hit1, tried2, res) ==
    [res EXCEPT !.g.heads = @ \cup
        {[parent |-> IF parent = None THEN RootIdent ELSE g.objs[parent].graphident,
          head |-> Head(name), qualified |-> Qualified(g, parent, name),
          sub |-> SubResolvable(g, parent, name),
          hit1 |-> hit1, tried2 |-> tried2, exc |-> res.exc,
          ret |-> IF res.exc = NoExc THEN res.g.objs[res.r].graphident ELSE <<>>]}]

\* find_head_package trying the unqualified head before parent.head
find_head_packageTopFirst(g, parent, name) ==
    LET Second(q2) ==
          HeadLog(g, parent, name, FALSE, TRUE,
                  IF q2.exc # NoExc \/ q2.r # None THEN q2
                  ELSE Raise(q2.g, "ImportError: No module named"))
        First(q) ==
          IF q.exc # NoExc \/ q.r # None
          THEN HeadLog(g, parent, name, q.exc = NoExc, FALSE, q)
          ELSE IF parent # None
          THEN Second(Call("import_module", <<q.g, Head(name),
                                            Qualified(g, parent, name), parent>>))
          ELSE HeadLog(g, parent, name, FALSE, FALSE,
                       Raise(q.g, "ImportError: No module named"))
    IN First(Call("import_module", <<g, Head(name), <<Head(name)>>, None>>))

\* ModuleGraph.find_head_package(parent, name): returns the head node q
\* (the tail is Tail(name))
find_head_package(g, parent, name) ==
    LET Second(q2) ==
          HeadLog(g, parent, name, FALSE, TRUE,
                  IF q2.exc # NoExc \/ q2.r # None THEN q2
                  ELSE Raise(q2.g, "ImportError: No module named"))
        First(q) ==
          IF q.exc # NoExc \/ q.r # None
          THEN HeadLog(g, parent, name, q.exc = NoExc, FALSE, q)
          ELSE IF parent # None
          THEN Second(Call("import_module", <<q.g, Head(name), <<Head(name)>>, None>>))
          ELSE HeadLog(g, parent, name, FALSE, FALSE,
                       Raise(q.g, "ImportError: No module named"))
    IN First(Call("import_module", <<g, Head(name), Qualified(g, parent, name), parent>>))

\* ModuleGraph.load_tail(q, tail)
load_tail(g, q, tail) ==
    IF tail = <<>> THEN Ret(g, q)
    ELSE LET Got(m) ==
               IF m.exc # NoExc THEN m
               ELSE IF m.r = None THEN Raise(m.g, "ImportError: No module named")
               ELSE Call("load_tail", <<m.g, m.r, Tail(tail)>>)
         IN Got(Call("import_module",
                     <<g, Head(tail), Append(g.objs[q].identifier, Head(tail)), q>>))

\* ModuleGraph.find_all_submodules(m)
find_all_submodules(n) ==
    IF ~HasPackagePath(n) THEN {}
    ELSE UNION {ListModules(n.packagepath[i]) \ {"__init__"} : i \in DOMAIN n.packagepath}

\* fromlist = set(fromlist), with '*' replaced by the submodules found
FromSet(n, fromlist) ==
    IF "*" \in Range(fromlist)
    THEN (Range(fromlist) \cup find_all_submodules(n)) \ {"*"}
    ELSE Range(fromlist)

\* ModuleGraph.ensure_fromlist(m, fromlist), consumed to its end
ensure_fromlist(g, m, fromlist) ==
    Call("EnsureEach", <<g, m, SetToSeq(FromSet(g.objs[m], fromlist)), {}>>)

\* m.get(sub)
NsGet(g, m, sub) ==
    IF sub \in DOMAIN g.ns[g.objs[m].namespace] THEN g.ns[g.objs[m].namespace][sub]
    ELSE None

EnsureEach(g, m, subs, acc) ==
    IF subs = <<>> THEN Ret(g, acc)
    ELSE IF NsGet(g, m, Head(subs)) # None
    THEN Call("EnsureEach", <<g, m, Tail(subs), acc \cup {NsGet(g, m, Head(subs))}>>)
    ELSE LET Got(r) ==
               IF r.exc # NoExc THEN r
               ELSE IF r.r = None THEN Raise(r.g, "ImportError: No module named")
               ELSE Call("EnsureEach", <<r.g, m, Tail(subs), acc \cup {r.r}>>)
         IN Got(Call("import_module", <<g, Head(subs),
                              Append(g.objs[m].identifier, Head(subs)), m>>))

\* parent[partname] = m without the reference from m to parent
AdoptNoReference(g, parent, partname, m) ==
    [g EXCEPT !.ns[g.objs[parent].namespace] = (partname :> m) @@ @]

\* self.createReference(m, parent); parent[partname] = m
Adopt(g, parent, partname, m) ==
    [createReference(g, m, parent) EXCEPT
        !.ns[g.objs[parent].namespace] = (partname :> m) @@ @]

\* ModuleGraph.import_module(partname, fqname, parent)
import_module(g, partname, fqname, parent) ==
    LET Loaded(m) ==
          IF m.exc # NoExc THEN m
          ELSE IF parent = None THEN Resolved(m, fqname)
          ELSE Resolved(Ret(Adopt(m.g, parent, partname, m.r), m.r), fqname)
        Located(fm) ==
          IF IsImportError(fm.exc) THEN Ret(fm.g, None)
          ELSE IF fm.exc # NoExc THEN fm
          ELSE Loaded(Call("load_module", <<fm.g, fqname, fm.r>>))
        Known(f) ==
          IF f.exc # NoExc THEN f
          ELSE IF f.r # None
          THEN Resolved(Ret(IF parent # None THEN createReference(f.g, f.r, parent)
                            ELSE f.g, f.r), fqname)
          ELSE IF parent # None /\ ~f.g.objs[parent].haspath THEN Ret(f.g, None)
          ELSE Located(Call("find_module", <<f.g, partname, parent # None,
                                   IF parent # None THEN f.g.objs[parent].packagepath
                                   ELSE <<>>,
                                   parent>>))
    IN Known(Call("findNode", <<g, fqname>>))

\* the descriptor find_module returns for what (fp, pathname, stuff) it found
Located3(typ) == [typ |-> typ, pathname |-> "", magic |-> TRUE, co |-> NoCode]

\* ModuleGraph.find_module(name, path, parent); haspath is "path is not
\* None"; returns the descriptor (fp, pathname, stuff) of what was found
find_module(g, name, haspath, path, parent) ==
    LET Probe(f, fullname, r) ==
          IF f.exc # NoExc THEN f
          ELSE IF f.r # None THEN Raise(f.g, "ImportError: already included")
          ELSE IF ~haspath /\ name \in BuiltinModuleNames
          THEN Ret(f.g, Located3("C_BUILTIN"))
          ELSE IF r.found THEN Ret(f.g, r.entry)
          ELSE IF fullname \in DOMAIN SysModulesPath
          THEN Ret(f.g, Located3("NamespaceModule"))
          ELSE Raise(f.g, "ImportError: No module named")
        Full(fullname) ==
          Probe(Call("findNode", <<g, fullname>>), fullname,
                ImpFindModule(name, IF haspath THEN path ELSE SysPath))
    IN Full(IF parent # None THEN Append(g.objs[parent].identifier, name)
            ELSE <<name>>)

\* the node class load_module creates for a module type
ClassOf(typ) ==
    CASE typ = "PY_SOURCE" -> "SourceModule"
      [] typ = "PY_COMPILED" -> "CompiledModule"
      [] typ = "C_BUILTIN" -> "BuiltinModule"
      [] typ = "NamespaceModule" -> "NamespaceModule"
      [] OTHER -> "Extension"

\* m.filename = pathname; m.code = co  (before the scan)
WithCode(g, m, d, fqname) ==
    [g EXCEPT !.objs[m].filename = d.pathname,
              !.objs[m].code = d.co,
              !.objs[m].hascode = TRUE,
              !.scans = Append(@, fqname)]

\* if packagepath is not None: m.packagepath = packagepath
WithNamespacePath(g, m, d, fqname) ==
    IF d.typ = "NamespaceModule"
    THEN [g EXCEPT !.objs[m].haspath = TRUE,
                   !.objs[m].packagepath = SysModulesPath[fqname]]
    ELSE g

\* ModuleGraph.load_module(fqname, fp, pathname, (suffix, mode, typ));
\* d is the descriptor find_module returned
load_module(g, fqname, d) ==
    IF g.depth >= MaxDepth THEN Raise(g, "RuntimeError")
    ELSE
    LET Leave(res) == [res EXCEPT !.g.depth = g.depth]
        Scanned(s, m) ==
          IF s.exc # NoExc THEN s
          ELSE Ret([s.g EXCEPT !.scandone = @ \cup {m}], m)
        Created(c) ==
          IF c.exc # NoExc THEN c
          ELSE IF d.typ \in {"PY_SOURCE", "PY_COMPILED"}
          THEN Scanned(Call("scan_code", <<WithCode(c.g, c.r, d, fqname), d.co, c.r>>), c.r)
          ELSE Ret(WithNamespacePath([c.g EXCEPT !.objs[c.r].filename = d.pathname],
                                     c.r, d, fqname), c.r)
        Enter(g0) ==
          IF d.typ = "PKG_DIRECTORY" THEN Call("load_package", <<g0, fqname, d.pathname>>)
          ELSE IF d.typ = "PY_COMPILED" /\ ~d.magic
          THEN Raise([g0 EXCEPT !.badmagic = @ \cup {fqname}],
                     "ImportError: Bad magic number")
          ELSE Created(Call("createNode", <<g0, ClassOf(d.typ), fqname, None>>))
    IN Leave(Enter([g EXCEPT !.depth = @ + 1]))

\* m.packagepath always made of the directory followed by the registered paths
PackagePathPrepended(pathname, additions) == <<pathname>> \o additions

\* m.packagepath for a package in directory pathname, given the paths
\* registered for it in packagePathMap
PackagePath(pathname, additions) ==
    IF pathname \in Range(additions) THEN additions ELSE <<pathname>> \o additions

\* dict.get(key, default) on one of the module-level tables
TableGet(map, key, default) == IF key \in DOMAIN map THEN map[key] ELSE default

\* record a package materialized by load_package(fqname, pathname): g0 is
\* the engine at the call, g1 the engine once m.packagepath is assigned
PackageLog(g1, g0, fqname, pathname, m) ==
    [g1 EXCEPT !.packages = @ \cup
        {[requested |-> fqname, dir |-> pathname,
          substitute |-> TableGet(g0.replacePackageMap, fqname, <<>>),
          overrides |-> TableGet(g0.packagePathMap,
                                 TableGet(g0.replacePackageMap, fqname, fqname), <<>>),
          key |-> g1.objs[m].graphident, cls |-> g1.objs[m].cls,
          path |-> g1.objs[m].packagepath,
          old |-> fqname \in DOMAIN g1.nodes,
          oldbefore |-> fqname \in DOMAIN g0.nodes]}]

\* ModuleGraph.load_package(fqname, pathname)
load_package(g, fqname, pathname) ==
    LET Init1(fm, fq, m) ==
          IF fm.exc # NoExc THEN fm ELSE Then(Call("load_module", <<fm.g, fq, fm.r>>), m)
        Made(c, fq, pp) ==
          IF c.exc # NoExc THEN c
          ELSE Init1(Call("find_module",
                          <<PackageLog([c.g EXCEPT !.objs[c.r].filename = pathname,
                                                   !.objs[c.r].haspath = TRUE,
                                                   !.objs[c.r].packagepath = pp],
                                       g, fqname, pathname, c.r),
                            "__init__", TRUE, pp, None>>),
                     fq, c.r)
        Named(fq) ==
          Made(Call("createNode", <<g, "Package", fq, None>>), fq,
               PackagePath(pathname,
                           IF fq \in DOMAIN g.packagePathMap THEN g.packagePathMap[fq]
                           ELSE <<>>))
    IN Named(IF fqname \in DOMAIN g.replacePackageMap THEN g.replacePackageMap[fqname]
             ELSE fqname)

\* record that an ImportError of import_hook was turned into a placeholder
Recovered(h, caller, name, level) ==
    [h.g EXCEPT !.recovered = @ \cup
        {[caller |-> IF caller = None THEN RootIdent ELSE h.g.objs[caller].graphident,
          name |-> name, level |-> level, exc |-> h.exc]}]

\* m = self.createNode(MissingModule, name); self.createReference(caller, m)
MissingLinked(c, caller) ==
    IF c.exc # NoExc THEN c ELSE Ret(createReference(c.g, caller, c.r), c.r)

\* ModuleGraph._safe_import_hook(name, caller, fromlist, level)
safe_import_hook(g, name, caller, fromlist, level) ==
    LET Subs(first) ==
          IF first.exc # NoExc THEN first
          ELSE Call("SafeSubs", <<first.g, name, caller, first.r, {first.r}, fromlist, level>>)
        Tried(h) ==
          IF IsImportError(h.exc)
          THEN MissingLinked(Call("createNode", <<Recovered(h, caller, name, level),
                                        "MissingModule", name, None>>), caller)
          ELSE IF h.exc # NoExc THEN h
          ELSE Ret(h.g, CHOOSE o \in h.r : TRUE)
    IN Subs(Tried(Call("import_hook", <<g, name, caller, <<>>, level>>)))

\* m[sub] = sm; if sm is not None: self.createReference(sm, m)
SetSub(g, m, sub, sm) ==
    createReference([g EXCEPT !.ns[g.objs[m].namespace] = (sub :> sm) @@ @], sm,
                    IF sm = None THEN None ELSE m)

\* the loop "for sub in (fromlist or ())" of _safe_import_hook
SafeSubs(g, name, caller, m, subs, fromlist, level) ==
    IF fromlist = <<>> THEN Ret(g, subs)
    ELSE
    LET Add(sm) == IF sm # None THEN subs \cup {sm} ELSE subs
        Have(sm) ==
          Call("SafeSubs", <<createReference(g, caller, sm), name, caller, m, Add(sm),
                   Tail(fromlist), level>>)
        Stored(s, sub) ==
          IF s.exc # NoExc THEN s
          ELSE Call("SafeSubs", <<SetSub(s.g, m, sub, s.r), name, caller, m, Add(s.r),
                        Tail(fromlist), level>>)
        Tried(h, fullname) ==
          IF IsImportError(h.exc)
          THEN Call("createNode", <<Recovered(h, caller, fullname, level),
                          "MissingModule", fullname, None>>)
          ELSE IF h.exc # NoExc THEN h
          ELSE Call("findNode", <<h.g, fullname>>)
        Looked(f, sub, fullname) ==
          IF f.exc # NoExc THEN f
          ELSE Stored(IF f.r # None THEN f
                      ELSE Tried(Call("import_hook", <<f.g, name, caller, <<sub>>, level>>),
                                 fullname),
                      sub)
        Each(sub) ==
          IF sub \in DOMAIN g.ns[g.objs[m].namespace]
          THEN Have(g.ns[g.objs[m].namespace][sub])
          ELSE Looked(Call("findNode", <<g, Append(name, sub)>>), sub, Append(name, sub))
    IN Each(Head(fromlist))

\* record that an exception left scan_code(co, m)
ScanRaised(g, m, exc) ==
    [g EXCEPT !.scanraised = @ \cup {[unit |-> g.objs[m].graphident, exc |-> exc]}]

\* ModuleGraph.scan_code(co, m)
scan_code(g, co, m) ==
    LET Out(r) == IF r.exc = NoExc THEN r ELSE [r EXCEPT !.g = ScanRaised(r.g, m, r.exc)]
        Own(e) == Out(IF e.exc # NoExc THEN e
                      ELSE Call("ScanConsts", <<e.g, co.co_consts, m>>))
    IN Own(Call("ScanEvents", <<g, scan_opcodes_25(co.co_code), m>>))

\* for what, args in scanner(co)
ScanEvents(g, evs, m) ==
    IF evs = <<>> THEN Ret(g, None)
    ELSE LET Next1(r) == IF r.exc # NoExc THEN r ELSE Call("ScanEvents", <<r.g, Tail(evs), m>>)
         IN Next1(Call("ScanEvent", <<g, Head(evs), m>>))

\* for c in co.co_consts: if isinstance(c, type(co)): self.scan_code(c, m)
ScanConsts(g, consts, m) ==
    IF consts = <<>> THEN Ret(g, None)
    ELSE IF Head(consts).k = "code"
    THEN LET Next1(r) == IF r.exc # NoExc THEN r ELSE Call("ScanConsts", <<r.g, Tail(consts), m>>)
         IN Next1(Call("scan_code", <<g, Head(consts).v, m>>))
    ELSE Call("ScanConsts", <<g, Tail(consts), m>>)

\* m.globalnames.update(mm.globalnames); m.starimports.update(mm.starimports);
\* if mm.code is None: m.starimports.add(name)    (mm found), or
\* m.starimports.add(name)                         (mm is None)
StarMerge(g, m, mm, name) ==
    IF mm # None
    THEN [g EXCEPT !.gn[g.objs[m].globalnames] = @ \cup g.gn[g.objs[mm].globalnames],
                   !.objs[m].starimports =
                       @ \cup g.objs[mm].starimports
                         \cup (IF g.objs[mm].hascode THEN {} ELSE {name})]
    ELSE [g EXCEPT !.objs[m].starimports = @ \cup {name}]

NotStar(x) == x # "*"

\* the body of the loop of scan_code for one event
ScanEvent(g, ev, m) ==
    IF ev.what = "store"
    THEN Ret([g EXCEPT !.gn[g.objs[m].globalnames] = @ \cup {ev.name}], None)
    ELSE IF ev.what \in {"import", "absolute_import"}
    THEN LET Merged(b) ==
               IF b.exc # NoExc THEN b ELSE Ret(StarMerge(b.g, m, b.r, ev.name), None)
             Sub(a) ==
               Merged(IF a.exc = NoExc /\ a.r = None THEN Call("findNode", <<a.g, ev.name>>) ELSE a)
             Imported(r) ==
               IF r.exc # NoExc THEN r
               ELSE IF "*" \notin Range(ev.fromlist) THEN Ret(r.g, None)
               ELSE Sub(IF HasPackagePath(r.g.objs[m])
                        THEN Call("findNode", <<r.g, r.g.objs[m].identifier \o ev.name>>)
                        ELSE Ret(r.g, None))
         IN Imported(Call("safe_import_hook", <<g, ev.name, m, SelectSeq(ev.fromlist, NotStar),
                                      IF ev.what = "absolute_import" THEN 0 ELSE -1>>))
    ELSE IF ev.what = "relative_import"
    THEN IF ev.name # <<>>
         THEN Call("safe_import_hook", <<g, ev.name, m, ev.fromlist, ev.level>>)
         ELSE LET Parent(p) ==
                    IF p.exc # NoExc THEN p
                    ELSE IF p.r = None THEN Raise(p.g, "AttributeError")
                    ELSE Call("safe_import_hook", <<p.g, p.g.objs[p.r].identifier, None,
                                          ev.fromlist, 0>>)
              IN Parent(Call("determine_parent", <<g, m, ev.level>>))
    ELSE Raise(g, "RuntimeError")

\* m.code = co; self.createReference(caller, m)   (before the scan)
ScriptCode(g, m, co, pathname, caller) ==
    createReference([g EXCEPT !.objs[m].code = co,
                              !.objs[m].hascode = TRUE,
                              !.scans = Append(@, pathname)], caller, m)

\* ModuleGraph.run_script(pathname, caller)
run_script(g, pathname, caller) ==
    LET Scanned(s, m) ==
          IF s.exc # NoExc THEN s
          ELSE Ret([s.g EXCEPT !.scandone = @ \cup {m}], m)
        Created(c) ==
          IF c.exc # NoExc THEN c
          ELSE Scanned(Call("scan_code", <<ScriptCode(c.g, c.r, ScriptFiles[pathname],
                                                     pathname, caller),
                                          ScriptFiles[pathname], c.r>>), c.r)
        Found(f) ==
          IF f.exc # NoExc \/ f.r # None THEN f
          ELSE Created(Call("createNode", <<f.g, "Script", pathname, None>>))
    IN Found(Call("findNode", <<g, pathname>>))

\* the method of the engine named fn, applied to the arguments a
Call(fn, a) ==
    CASE fn = "findNode" -> findNode(a[1], a[2])
      [] fn = "createNode" -> createNode(a[1], a[2], a[3], a[4])
      [] fn = "implyNodeReference" -> implyNodeReference(a[1], a[2], a[3])
      [] fn = "ImplyAll" -> ImplyAll(a[1], a[2], a[3])
      [] fn = "import_hook" -> import_hook(a[1], a[2], a[3], a[4], a[5])
      [] fn = "determine_parent" -> determine_parent(a[1], a[2], a[3])
      [] fn = "find_head_package" -> find_head_package(a[1], a[2], a[3])
      [] fn = "load_tail" -> load_tail(a[1], a[2], a[3])
      [] fn = "ensure_fromlist" -> ensure_fromlist(a[1], a[2], a[3])
      [] fn = "EnsureEach" -> EnsureEach(a[1], a[2], a[3], a[4])
      [] fn = "import_module" -> import_module(a[1], a[2], a[3], a[4])
      [] fn = "find_module" -> find_module(a[1], a[2], a[3], a[4], a[5])
      [] fn = "load_module" -> load_module(a[1], a[2], a[3])
      [] fn = "load_package" -> load_package(a[1], a[2], a[3])
      [] fn = "safe_import_hook" -> safe_import_hook(a[1], a[2], a[3], a[4], a[5])
      [] fn = "SafeSubs" -> SafeSubs(a[1], a[2], a[3], a[4], a[5], a[6], a[7])
      [] fn = "scan_code" -> scan_code(a[1], a[2], a[3])
      [] fn = "ScanEvents" -> ScanEvents(a[1], a[2], a[3])
      [] fn = "ScanEvent" -> ScanEvent(a[1], a[2], a[3])
      [] fn = "ScanConsts" -> ScanConsts(a[1], a[2], a[3])
      [] fn = "run_script" -> run_script(a[1], a[2], a[3])

(***************************************************************************)
(* Module-level registries and their public interface.                     *)
(***************************************************************************)
\* AddPackagePath(packagename, path)
AddPackagePathMap(map, packagename, path) ==
    LET paths == IF packagename \in DOMAIN map THEN map[packagename] ELSE <<>>
    IN (packagename :> Append(paths, path)) @@ map

\* ReplacePackage(oldname, newname)
ReplacePackageMap(map, oldname, newname) == (oldname :> newname) @@ map

(***************************************************************************)
(* Construction.                                                           *)
(***************************************************************************)
Excluded == [kind |-> "excluded", target |-> <<>>, deps |-> <<>>]

Alias(target) == [kind |-> "alias", target |-> target, deps |-> <<>>]

Implies(deps) == [kind |-> "implies", target |-> <<>>, deps |-> deps]

\* ModuleGraph.__init__: lazynodes.update(dict(implies)), then every
\* excluded name is set to None
ModuleGraph_init(excludes, implies) ==
    EmptyGraph([n \in (DOMAIN implies) \cup excludes |->
                   IF n \in excludes THEN Excluded ELSE implies[n]])

\* the configurations an engine is constructed with
Configs ==
    { [excludes |-> {}, implies |-> EmptyMap],
      [excludes |-> {<<"pkg", "sub">>, <<"top">>, <<"qq">>},
       implies |-> ( <<"top">> :> Alias(<<"wm">>)
                  @@ <<"al">> :> Alias(<<"pkg">>)
                  @@ <<"ext">> :> Implies(<<<<"goodc">>>>) )],
      [excludes |-> {},
       implies |-> ( <<"q">> :> Implies(<<<<"top">>>>)
                  @@ <<"al">> :> Alias(<<"p">>)
                  @@ <<"sa">> :> Alias(<<"sw">>)
                  @@ <<"ap", "u">> :> Implies(<<<<"top">>>>)
                  @@ <<"top", "sub">> :> Implies(<<<<"goodc">>>>) )] }

\* the requests made of the engine: <<name, caller, fromlist, level>>
HookArgs ==
    { <<<<"pkg", "sub">>, RootIdent, <<>>, -1>>,
      <<<<"p">>, RootIdent, <<>>, -1>>,
      <<<<"wm">>, RootIdent, <<>>, -1>>,
      <<<<"q", "w">>, RootIdent, <<>>, -1>>,
      <<<<"tm">>, RootIdent, <<>>, -1>>,
      <<<<"usebad">>, RootIdent, <<>>, -1>>,
      <<<<"badc">>, RootIdent, <<>>, -1>>,
      <<<<"bp">>, RootIdent, <<>>, -1>>,
      <<<<"nomod">>, RootIdent, <<>>, -1>>,
      <<<<"pkg", "rel">>, RootIdent, <<>>, -1>>,
      <<<<"relroot">>, RootIdent, <<>>, -1>>,
      <<<<"ap">>, RootIdent, <<>>, -1>>,
      <<<<"q", "rs">>, RootIdent, <<>>, -1>>,
      <<<<"q", "x">>, RootIdent, <<>>, -1>>,
      <<<<"q", "fz">>, RootIdent, <<>>, -1>>,
      <<<<"q">>, RootIdent, <<"w", "p2">>, -1>>,
      <<<<"top">>, RootIdent, <<"T">>, -1>>,
      <<<<"pkg">>, <<"pkg", "sub">>, <<"rel">>, -1>>,
      <<<<"q", "p2">>, <<"pkg", "sub">>, <<>>, 0>>,
      <<<<"ap", "u">>, RootIdent, <<>>, -1>>,
      <<<<"nest">>, RootIdent, <<>>, -1>>,
      <<<<"pkg", "rt">>, RootIdent, <<>>, -1>>,
      <<<<"top">>, <<"pkg", "sub">>, <<>>, 2>> }

\* the registrations made with AddPackagePath: <<packagename, path>>
PathArgs ==
    { <<<<"pkg">>, "/extra">>, <<<<"pkg">>, "/lib/pkg">>, <<<<"qq">>, "/extra">> }

FindNames == { <<"al">>, <<"q">>, <<"top">>, <<"top", "sub">>, <<"sa">>, <<"ap", "u">> }

Idents(g, os) == {g.objs[o].graphident : o \in os}

\* an engine running in a process whose module-level tables packagePathMap
\* and replacePackageMap hold ppm and rpm
InProcess(g, ppm, rpm) ==
    [g EXCEPT !.packagePathMap = ppm, !.replacePackageMap = rpm]

Init ==
    /\ config \in Configs
    /\ G = ModuleGraph_init(config.excludes, config.implies)
    /\ G0 = G
    /\ packagePathMap = EmptyMap
    /\ replacePackageMap = EmptyMap
    /\ calls = <<>>
    /\ last = [op |-> "init", name |-> <<>>, caller |-> RootIdent, exc |-> NoExc, ret |-> {}]

RunScript(pathname) ==
    /\ Len(calls) < MaxCalls
    /\ LET Done(r) ==
             /\ G' = r.g
             /\ last' = [op |-> "run_script", name |-> pathname, caller |-> RootIdent,
                         exc |-> r.exc,
                         ret |-> IF r.exc = NoExc THEN Idents(r.g, {r.r}) ELSE {}]
       IN Done(Call("run_script",
                    <<InProcess(G, packagePathMap, replacePackageMap), pathname, None>>))
    /\ LET Done0(r) == G0' = r.g
       IN Done0(Call("run_script", <<G0, pathname, None>>))
    /\ calls' = Append(calls, <<"run_script", pathname>>)
    /\ UNCHANGED <<config, packagePathMap, replacePackageMap>>

ImportHook(a) ==
    /\ Len(calls) < MaxCalls
    /\ a[2] = RootIdent \/ a[2] \in DOMAIN G.nodes \cap DOMAIN G0.nodes
    /\ LET Done(r) ==
             /\ G' = r.g
             /\ last' = [op |-> "import_hook", name |-> a[1], caller |-> a[2],
                         exc |-> r.exc,
                         ret |-> IF r.exc = NoExc THEN Idents(r.g, r.r) ELSE {}]
       IN Done(Call("import_hook",
                    <<InProcess(G, packagePathMap, replacePackageMap), a[1],
                      IF a[2] = RootIdent THEN None ELSE G.nodes[a[2]],
                      a[3], a[4]>>))
    /\ LET Done0(r) == G0' = r.g
       IN Done0(Call("import_hook",
                     <<G0, a[1], IF a[2] = RootIdent THEN None ELSE G0.nodes[a[2]],
                       a[3], a[4]>>))
    /\ calls' = Append(calls, <<"import_hook", a[1]>>)
    /\ UNCHANGED <<config, packagePathMap, replacePackageMap>>

FindNode(name) ==
    /\ Len(calls) < MaxCalls
    /\ LET Done(r) ==
             /\ G' = r.g
             /\ last' = [op |-> "findNode", name |-> name, caller |-> RootIdent,
                         exc |-> r.exc,
                         ret |-> IF r.exc = NoExc /\ r.r # None
                                 THEN Idents(r.g, {r.r}) ELSE {}]
       IN Done(Call("findNode", <<InProcess(G, packagePathMap, replacePackageMap), name>>))
    /\ LET Done0(r) == G0' = r.g
       IN Done0(Call("findNode", <<G0, name>>))
    /\ calls' = Append(calls, <<"findNode", name>>)
    /\ UNCHANGED <<config, packagePathMap, replacePackageMap>>

ReplacePackage(oldname, newname) ==
    /\ Len(calls) < MaxCalls
    /\ replacePackageMap' = ReplacePackageMap(replacePackageMap, oldname, newname)
    /\ calls' = Append(calls, <<"ReplacePackage", oldname>>)
    /\ last' = [op |-> "ReplacePackage", name |-> oldname, caller |-> RootIdent,
                exc |-> NoExc, ret |-> {}]
    /\ UNCHANGED <<G, G0, config, packagePathMap>>

AddPackagePath(packagename, path) ==
    /\ Len(calls) < MaxCalls
    /\ packagePathMap' = AddPackagePathMap(packagePathMap, packagename, path)
    /\ calls' = Append(calls, <<"AddPackagePath", packagename>>)
    /\ last' = [op |-> "AddPackagePath", name |-> packagename, caller |-> RootIdent,
                exc |-> NoExc, ret |-> {}]
    /\ UNCHANGED <<G, G0, config, replacePackageMap>>

Next ==
    \/ \E p \in DOMAIN ScriptFiles : RunScript(p)
    \/ \E a \in HookArgs : ImportHook(a)
    \/ \E n \in FindNames : FindNode(n)
    \/ ReplacePackage(<<"q">>, <<"qq">>)
    \/ \E r \in PathArgs : AddPackagePath(r[1], r[2])

Spec == Init /\ [][Next]_vars

(***************************************************************************)
(* Path rewriting.  A path string is modelled by the sequence of its      *)
(* '/'-separated parts, which determines the string: "/a/x" is            *)
(* <<"", "a", "x">>, "/a/" is <<"", "a", "">>, "a//x" is <<"a", "", "x">>  *)
(* and the empty string is <<"">>.                                        *)
(***************************************************************************)
MaxParts == 3

MaxRules == 2

Parts == {"", ".", "..", "a", "b"}

Last(s) == s[Len(s)]

Front(s) == SubSeq(s, 1, Len(s) - 1)

\* 1 if path starts with '/', 2 if it starts with exactly two, else 0
InitialSlashes(path) ==
    IF Len(path) >= 2 /\ path[1] = ""
    THEN IF Len(path) >= 3 /\ path[2] = "" /\ ~(Len(path) >= 4 /\ path[3] = "")
         THEN 2 ELSE 1
    ELSE 0

RECURSIVE NormComps(_, _, _)
\* the loop "for comp in comps" of os.path.normpath
NormComps(comps, new_comps, initial_slashes) ==
    IF comps = <<>> THEN new_comps
    ELSE IF Head(comps) \in {"", "."}
    THEN NormComps(Tail(comps), new_comps, initial_slashes)
    ELSE IF \/ Head(comps) # ".."
            \/ (initial_slashes = 0 /\ new_comps = <<>>)
            \/ (new_comps # <<>> /\ Last(new_comps) = "..")
    THEN NormComps(Tail(comps), Append(new_comps, Head(comps)), initial_slashes)
    ELSE IF new_comps # <<>>
    THEN NormComps(Tail(comps), Front(new_comps), initial_slashes)
    ELSE NormComps(Tail(comps), new_comps, initial_slashes)

\* os.path.normpath(path)
normpath(path) ==
    LET Joined(new_comps) == IF new_comps = <<>> THEN <<"">> ELSE new_comps
        Slashed(new_comps, n) ==
          IF n = 0 THEN IF new_comps = <<>> THEN <<".">> ELSE new_comps
          ELSE [i \in 1..n |-> ""] \o Joined(new_comps)
    IN IF path = <<"">> THEN <<".">>
       ELSE Slashed(NormComps(path, <<>>, InitialSlashes(path)), InitialSlashes(path))

\* os.path.join(p, '')
JoinEmpty(p) == IF Last(p) = "" THEN p ELSE Append(p, "")

\* s.startswith(f), for f empty or ending with '/'
StartsWith(s, f) ==
    Len(s) >= Len(f) /\ \A i \in 1..(Len(f) - 1) : s[i] = f[i]

\* r + s[len(f):], for f and r empty or ending with '/'
Replaced(s, f, r) == Front(r) \o SubSeq(s, Len(f), Len(s))

RECURSIVE NewFilenameKeepGoing(_, _, _)
\* the loop "for f, r in self.replace_paths" without its break
NewFilenameKeepGoing(replace_paths, original_filename, new_filename) ==
    IF replace_paths = <<>> THEN new_filename
    ELSE IF StartsWith(original_filename, JoinEmpty(Head(replace_paths)[1]))
    THEN NewFilenameKeepGoing(Tail(replace_paths), original_filename,
                              Replaced(original_filename,
                                       JoinEmpty(Head(replace_paths)[1]),
                                       JoinEmpty(Head(replace_paths)[2])))
    ELSE NewFilenameKeepGoing(Tail(replace_paths), original_filename, new_filename)

RECURSIVE NewFilename(_, _, _)
\* the loop "for f, r in self.replace_paths", left by break at the first hit
NewFilename(replace_paths, original_filename, new_filename) ==
    IF replace_paths = <<>> THEN new_filename
    ELSE IF StartsWith(original_filename, JoinEmpty(Head(replace_paths)[1]))
    THEN Replaced(original_filename, JoinEmpty(Head(replace_paths)[1]),
                  JoinEmpty(Head(replace_paths)[2]))
    ELSE NewFilename(Tail(replace_paths), original_filename, new_filename)

RECURSIVE replace_paths_in_code(_, _)
\* ModuleGraph.replace_paths_in_code(co), self.replace_paths given
replace_paths_in_code(replace_paths, co) ==
    Code(co.co_code,
         [i \in DOMAIN co.co_consts |->
            IF co.co_consts[i].k = "code"
            THEN ConstCode(replace_paths_in_code(replace_paths, co.co_consts[i].v))
            ELSE co.co_consts[i]],
         NewFilename(replace_paths, normpath(co.co_filename),
                     normpath(co.co_filename)))

\* a constant that is no code object
ConstStr(v) == [k |-> "str", v |-> v]

\* the source locations of code handles
Locations == UNION {[1..n -> Parts] : n \in 1..MaxParts}

\* code handles located at l: without constants, with a nested handle of
\* the same file, and with handles nested twice, the inner one elsewhere
Handles(l) ==
    { Code(<<>>, <<>>, l),
      Code(<<>>, <<ConstStr("doc"), ConstCode(Code(<<>>, <<>>, l))>>, l),
      Code(<<>>, <<ConstCode(Code(<<>>,
                                  <<ConstCode(Code(<<>>, <<>>, <<"", "a", ".", "b">>))>>,
                                  l))>>, l) }

\* (from-prefix, to-prefix) pairs
Rules ==
    { <<<<"", "a">>, <<"", "b">>>>,
      <<<<"", "a", "b">>, <<"a">>>>,
      <<<<"", "a", "">>, <<"">>>>,
      <<<<"">>, <<"", "b", "">>>>,
      <<<<"a">>, <<"", "a">>>> }

\* self.replace_paths where it is not empty (lines 242 and 431)
RuleLists == UNION {[1..n -> Rules] : n \in 1..MaxRules}

\* ModuleGraph(replace_paths=...) and a code handle to rewrite
PathInit ==
    /\ \E rl \in RuleLists :
          config = [excludes |-> {}, implies |-> EmptyMap, replace_paths |-> rl]
    /\ G = ModuleGraph_init({}, EmptyMap)
    /\ G0 = G
    /\ packagePathMap = EmptyMap
    /\ replacePackageMap = EmptyMap
    /\ calls = <<>>
    /\ \E l \in Locations : \E co \in Handles(l) :
          last = [op |-> "init", co |-> co, ret |-> co]

ReplacePathsInCode ==
    /\ last.op = "init"
    /\ last' = [op |-> "replace_paths_in_code", co |-> last.co,
                ret |-> replace_paths_in_code(config.replace_paths, last.co)]
    /\ UNCHANGED <<G, G0, config, packagePathMap, replacePackageMap, calls>>

PathNext == ReplacePathsInCode

PathSpec == PathInit /\ [][PathNext]_vars

(***************************************************************************)
(* Properties.                                                             *)
(***************************************************************************)
ClsOf(g, ident) == g.objs[g.nodes[ident]].cls

HasEdge(g, a, b) == \E i \in DOMAIN g.edges : g.edges[i][1] = a /\ g.edges[i][2] = b

\* C1 (memoization): no two Node objects carry the same identifier, the
\* node table maps every identifier to the object carrying it, and all
\* the resolutions of one identifier (findNode, import_module, from a
\* request or from within a scan) returned one and the same Node object,
\* placeholders included.
C1_Memoization ==
    /\ \A i, j \in DOMAIN G.objs :
          G.objs[i].graphident = G.objs[j].graphident => i = j
    /\ \A n \in DOMAIN G.nodes : G.objs[G.nodes[n]].graphident = n
    /\ \A a, b \in G.resolved : a[1] = b[1] => a[2] = b[2]

\* a MissingModule placeholder and a scanned unit have each been resolved
\* a second time
C1_Witness ==
    /\ \E n \in G.reresolved :
          n \in DOMAIN G.nodes /\ ClsOf(G, n) = "MissingModule"
    /\ \E n \in G.reresolved :
          n \in DOMAIN G.nodes /\ ClsOf(G, n) \in {"Package", "SourceModule"}

\* name is a module of the universe found from the directories dirs
\* (a dotted name descends through package directories)
RECURSIVE OnPath(_, _)
OnPath(name, dirs) ==
    IF name = <<>> THEN TRUE
    ELSE IF ImpFindModule(Head(name), dirs).found
    THEN \/ Len(name) = 1
         \/ /\ ImpFindModule(Head(name), dirs).entry.typ = "PKG_DIRECTORY"
            /\ OnPath(Tail(name), <<ImpFindModule(Head(name), dirs).entry.pathname>>)
    ELSE FALSE

\* name is a module of the search path (or built in, or a namespace package)
Present(name) ==
    \/ OnPath(name, SysPath)
    \/ Len(name) = 1 /\ Head(name) \in BuiltinModuleNames
    \/ name \in DOMAIN SysModulesPath

\* the package an import written in unit n is first tried against
PackageOf(n) ==
    IF n.cls = "Package" THEN n.identifier
    ELSE IF n.cls = "Script" \/ Len(n.identifier) < 2 THEN <<>>
    ELSE DropLast(n.identifier, 1)

\* the events of the code of node n
Events(n) == scan_opcodes_25(n.code.co_code)

\* the import statements of unit n that carry no explicit level
PlainImports(n) ==
    {Events(n)[i] : i \in {j \in DOMAIN Events(n) : Events(n)[j].what = "import"}}

\* the names the plain imports of unit n mention for which the universe
\* holds no module, neither beside the unit nor on the search path
AbsentImports(n) ==
    {ev.name : ev \in {e \in PlainImports(n) :
                          /\ ~Present(e.name)
                          /\ ~Present(PackageOf(n) \o e.name)}}
    \cup {Append(x[1], x[2]) :
            x \in {y \in UNION {{<<e.name, sub>> : sub \in Range(e.fromlist) \ {"*"}} :
                                   e \in PlainImports(n)} :
                      /\ PackageOf(n) = <<>>
                      /\ Present(y[1])
                      /\ ~Present(Append(y[1], y[2]))}}

\* C2 (soft-miss isolation): once the scan of a unit has completed, every
\* name its plain imports mention (import x, import a.b, from a import b)
\* that has no module on the search path has exactly one MissingModule
\* node, and the graph holds an edge from the unit to that node.
C2_SoftMissIsolation ==
    \A u \in G.scandone :
       \A n \in AbsentImports(G.objs[u]) :
          /\ n \in DOMAIN G.nodes
          /\ ClsOf(G, n) = "MissingModule"
          /\ Cardinality({i \in DOMAIN G.objs : G.objs[i].graphident = n}) = 1
          /\ HasEdge(G, G.objs[u].graphident, n)

\* C3 (exclusion precedence): every resolution of an identifier of the
\* exclude set gave an ExcludedModule node, also when the implies table
\* names the identifier, and that node is the source of no edge.
C3_ExclusionPrecedence ==
    \A e \in config.excludes :
       /\ \A r \in G.resolved : r[1] = e => G.objs[r[2]].cls = "ExcludedModule"
       /\ e \in DOMAIN G.nodes =>
             /\ ClsOf(G, e) = "ExcludedModule"
             /\ \A i \in DOMAIN G.edges : G.edges[i][1] # e

\* the state after run_script('/s4.py') on a newly constructed engine with
\* no excludes and no implies
AfterExample ==
    /\ config = [excludes |-> {}, implies |-> EmptyMap]
    /\ calls = << <<"run_script", <<"/s4", "py">>>> >>

ExampleNodes ==
    {<<"/s4", "py">>, <<"pkg">>, <<"pkg", "sub">>, <<"pkg", "missing">>}

\* C4 (end-to-end example, as stated): run_script on a script importing
\* pkg.sub, where pkg.sub imports the absent pkg.missing, ends without an
\* error; the nodes are exactly script, pkg, pkg.sub and pkg.missing (a
\* MissingModule) and the edges script->pkg, script->pkg.sub, pkg.sub->pkg
\* and pkg.sub->pkg.missing are all in the graph.
C4_ExampleAsStated ==
    AfterExample =>
      /\ last.exc = NoExc
      /\ DOMAIN G.nodes = ExampleNodes
      /\ ClsOf(G, <<"pkg", "missing">>) = "MissingModule"
      /\ HasEdge(G, <<"/s4", "py">>, <<"pkg">>)
      /\ HasEdge(G, <<"/s4", "py">>, <<"pkg", "sub">>)
      /\ HasEdge(G, <<"pkg", "sub">>, <<"pkg">>)
      /\ HasEdge(G, <<"pkg", "sub">>, <<"pkg", "missing">>)

\* C4 (end-to-end example, amended): the same run ends without an error;
\* the nodes are exactly script, pkg, pkg.sub and pkg.missing (a
\* MissingModule), and the edges are exactly root->script,
\* script->pkg.sub, pkg.sub->pkg and pkg.sub->pkg.missing: the script is
\* linked to the leaf pkg.sub only, there is no edge script->pkg.
C4_Example ==
    AfterExample =>
      /\ last.exc = NoExc
      /\ DOMAIN G.nodes = ExampleNodes
      /\ ClsOf(G, <<"/s4", "py">>) = "Script"
      /\ ClsOf(G, <<"pkg">>) = "Package"
      /\ ClsOf(G, <<"pkg", "sub">>) = "SourceModule"
      /\ ClsOf(G, <<"pkg", "missing">>) = "MissingModule"
      /\ Range(G.edges) =
            { <<RootIdent, <<"/s4", "py">>, "direct">>,
              <<<<"/s4", "py">>, <<"pkg", "sub">>, "direct">>,
              <<<<"pkg", "sub">>, <<"pkg">>, "direct">>,
              <<<<"pkg", "sub">>, <<"pkg", "missing">>, "direct">> }

\* the example has been run and left its four nodes
C4_Witness ==
    /\ AfterExample
    /\ last.op = "run_script" /\ last.exc = NoExc
    /\ <<"pkg", "missing">> \in DOMAIN G.nodes

\* the top-level names the code of node n assigns
Assigned(n) ==
    {Events(n)[i].name : i \in {j \in DOMAIN Events(n) : Events(n)[j].what = "store"}}

\* the names the wildcard imports written in unit n mention
WildcardNames(n) ==
    {Events(n)[i].name :
        i \in {j \in DOMAIN Events(n) :
                  /\ Events(n)[j].what \in {"import", "absolute_import"}
                  /\ "*" \in Range(Events(n)[j].fromlist)}}

\* the nodes the wildcard imports written in unit n resolved to
WildcardTargets(g, n) ==
    UNION {h.ret : h \in {x \in g.hooks :
                             /\ x.caller = n.graphident
                             /\ x.exc = NoExc
                             /\ x.name \in WildcardNames(n)}}

\* C5 (wildcard propagation): once the scan of a module m has finished,
\* the global names of m include every top-level name assigned by the
\* initializer of every package that a wildcard import of m resolved to,
\* in whatever order the package and the module were first resolved.
C5_WildcardPropagation ==
    \A m \in G.scandone :
       \A p \in WildcardTargets(G, G.objs[m]) :
          ClsOf(G, p) = "Package" =>
             Assigned(G.objs[G.nodes[p]]) \subseteq G.gn[G.objs[m].globalnames]

\* C5 for the module q.w alone, whose wildcard import names the package
\* p2 that sits beside it in q
C5_Sibling ==
    \A m \in G.scandone :
       G.objs[m].graphident = <<"q", "w">> =>
          \A p \in WildcardTargets(G, G.objs[m]) :
             ClsOf(G, p) = "Package" =>
                Assigned(G.objs[G.nodes[p]]) \subseteq G.gn[G.objs[m].globalnames]

TooDeep == "ImportError: relative importpath too deep"

BadMagic == "ImportError: Bad magic number"

\* the number of packages around unit n, n itself included if it is one
NestingDepth(n) ==
    IF n.cls = "Script" THEN 0
    ELSE IF HasPackagePath(n) THEN Len(n.identifier)
    ELSE Len(n.identifier) - 1

\* C6 (relative depth bound): every resolution of a relative import whose
\* level exceeds the package nesting depth of the requesting script, module
\* or package failed with the 'too deep' error, and no such failure was
\* turned into a MissingModule placeholder.
C6_RelativeDepthBound ==
    /\ \A h \in G.hooks :
          (/\ h.caller # RootIdent
           /\ h.level >= 1
           /\ h.level > NestingDepth(G.objs[G.nodes[h.caller]]))
          => h.exc = TooDeep
    /\ \A r \in G.recovered : r.exc # TooDeep

\* C6 for modules and packages asking directly: a request of import_hook
\* whose level exceeds the nesting depth of a requester that is not a
\* script failed with the 'too deep' error
C6_DirectFromModule ==
    \A h \in G.hooks :
       (/\ h.caller # RootIdent
        /\ ClsOf(G, h.caller) # "Script"
        /\ h.level >= 1
        /\ h.level > NestingDepth(G.objs[G.nodes[h.caller]]))
       => h.exc = TooDeep

\* C7 (cache validation): a unit whose precompiled cache carried a wrong
\* format tag has no Node under its identifier, be it a cached module, a
\* package with a cached initializer, or a unit reached from a scan; and
\* every request for it failed with the bad-format error.
C7_CacheValidation ==
    \A n \in G.badmagic :
       /\ n \notin DOMAIN G.nodes
       /\ \A h \in G.hooks : h.name = n => h.exc = BadMagic

\* C7 for a plain cached module asked for directly and nothing else: the
\* request failed with the bad-format error and left no Node
C7_DirectPlain ==
    (calls = << <<"import_hook", <<"badc">>>> >>)
       => /\ last.exc = BadMagic
          /\ <<"badc">> \notin DOMAIN G.nodes

\* C8 (edge non-duplication): no (source, target, kind) edge occurs twice
\* in the enumeration of the edges of the graph.
C8_NoDuplicateEdge ==
    \A i, j \in DOMAIN G.edges : G.edges[i] = G.edges[j] => i = j

\* C9 (direct resolution fails loudly): a request made of import_hook
\* directly, with no requester, for a name that has no module on the
\* search path ended with an ImportError, also when an earlier scan had
\* recorded the name as a MissingModule placeholder.
C9_DirectFailsLoudly ==
    (/\ last.op = "import_hook"
     /\ last.caller = RootIdent
     /\ ~Present(last.name))
    => IsImportError(last.exc)

\* C9 on a graph that holds no placeholder: the same request on a graph
\* without MissingModule nodes ended with an ImportError
C9_FirstRequest ==
    (/\ last.op = "import_hook"
     /\ last.caller = RootIdent
     /\ ~Present(last.name)
     /\ \A n \in DOMAIN G.nodes : ClsOf(G, n) # "MissingModule")
    => IsImportError(last.exc)

\* the lazy registry the engine was constructed with
LazyAtInit == ModuleGraph_init(config.excludes, config.implies).lazynodes

\* what C10 says of the registry itself: the entries taken out were taken
\* out once each and by findNode of their own identifier, nothing else
\* left the registry and nothing was put back, and no identifier that was
\* resolved to a Node is still registered
RegistryConsumedOnce ==
    /\ \A i, j \in DOMAIN G.popped : G.popped[i] = G.popped[j] => i = j
    /\ G.lazynodes = [n \in (DOMAIN LazyAtInit) \ Range(G.popped) |-> LazyAtInit[n]]
    /\ \A r \in G.resolved : r[1] \notin DOMAIN G.lazynodes
    /\ G.lazydone \subseteq Range(G.popped)

C11_AliasFrozen ==
    \A a \in DOMAIN G.aliased :
       /\ G.ns[G.objs[a].namespace] = G.aliased[a].namespace
       /\ G.gn[G.objs[a].globalnames] = G.aliased[a].globalnames
       /\ G.objs[a].haspath = G.aliased[a].haspath
       /\ G.objs[a].packagepath = G.aliased[a].packagepath
       /\ G.objs[a].graphident # G.objs[G.aliased[a].target].graphident

\* what a build produces: the nodes, their fields and the edges
Graph(g) == [nodes |-> g.nodes, objs |-> g.objs, edges |-> g.edges]

\* C12 (build isolation): the graph a build produces is a function of the
\* configuration its engine was constructed with and of the requests made of
\* it: it equals the graph of the same build in a process where no
\* AddPackagePath or ReplacePackage registration was made.
C12_BuildIsolation == Graph(G) = Graph(G0)

\* C13 (scan never propagates import failures): no scan_code call is left
\* by an ImportError: a failure to resolve an event of a unit, whatever the
\* kind of the event, is turned into a placeholder inside the scan.
C13_ScanSwallowsImportErrors ==
    \A f \in G.scanraised : ~IsImportError(f.exc)

\* C14 (termination under cycles, one scan per unit): no request ends by
\* running out of stack, and no unit is compiled and scanned twice in one
\* build.
C14_ScannedOnce ==
    /\ last.exc # "RuntimeError"
    /\ \A i, j \in DOMAIN G.scans : G.scans[i] = G.scans[j] => i = j

\* the edges a step adds to the graph
NewEdges == {G'.edges[i] : i \in (Len(G.edges) + 1)..Len(G'.edges)}

\* the nodes a step links from the node c
LinkedFrom(c) == {e[2] : e \in {x \in NewEdges : x[1] = c}}

\* the set import_hook returned is a leaf and, for a non-empty from-list and
\* a package-like leaf, the nodes the leaf's namespace holds for the from-list
LeafAndTargets(ret, fromlist) ==
    \E leaf \in ret :
       ret = {leaf} \cup
             (IF fromlist # <<>> /\ HasPackagePath(G'.objs[G'.nodes[leaf]])
              THEN {G'.objs[NsGet(G', G'.nodes[leaf], fromlist[i])].graphident :
                       i \in DOMAIN fromlist}
              ELSE {})

\* the request a is the only one its requester made during the step
OnlyRequest(a) ==
    \A h \in G'.hooks \ G.hooks :
       h.caller = a[2] => h.name = a[1] /\ h.fromlist = a[3] /\ h.level = a[4]

HookSucceeded(a) ==
    /\ last'.op = "import_hook" /\ last'.name = a[1] /\ last'.caller = a[2]
    /\ last'.exc = NoExc
    /\ ImportHook(a)

Ascent(d) == IF d.pkg THEN d.level - 1 ELSE d.level

\* a is a prefix of (or equal to) b
IsPrefix(a, b) == Len(a) <= Len(b) /\ \A i \in DOMAIN a : a[i] = b[i]

\* the parent determine_parent returned is the one the rules name
ParentAsRuled(d) ==
    /\ d.caller = RootIdent \/ d.level = 0 => ~d.found
    /\ d.caller # RootIdent /\ d.level = -1 =>
          IF d.pkg THEN d.found /\ d.parent = d.caller
          ELSE IF Len(d.identifier) > 1
          THEN d.found => d.parent = DropLast(d.identifier, 1)
          ELSE ~d.found
    /\ d.caller # RootIdent /\ d.level >= 1 =>
          IF Ascent(d) = 0 THEN d.found /\ d.parent = d.caller
          ELSE d.found => d.parent = DropLast(d.identifier, Ascent(d))

\* determine_parent fails with "too deep" exactly when the requester's
\* identifier has fewer dots than the components to remove
TooDeepAsRuled(d) ==
    d.exc = "ImportError: relative importpath too deep"
       <=> /\ d.caller # RootIdent /\ d.level >= 1
           /\ CountDots(d.identifier) < Ascent(d)

\* C16 as stated: every parent determine_parent returns is the one the rules
\* name, and it is a package-like node that is an ancestor of the requester
\* or the requester itself.
C16_AsStated ==
    \A d \in G.parents :
       d.exc = NoExc =>
          /\ ParentAsRuled(d)
          /\ d.found => d.parentpkg /\ IsPrefix(d.parent, d.identifier)

\* C16 (determine_parent result): every parent determine_parent returns is
\* the one the rules name (none without requester or at level 0; at level -1
\* the package requester itself, else the node keyed by the identifier
\* without its last component; at level L the identifier without its last
\* L-1 or L components, an ImportError when it has too few), and it is keyed
\* by the requester's identifier or a prefix of it, and is package-like
\* whenever it is the requester itself.
C16_ParentResult ==
    \A d \in G.parents :
       /\ TooDeepAsRuled(d)
       /\ d.exc = NoExc =>
          /\ ParentAsRuled(d)
          /\ d.found => /\ IsPrefix(d.parent, d.identifier)
                         /\ d.parent = d.caller => d.parentpkg

C16_Witness ==
    /\ \E d \in G.parents : d.found /\ d.pkg /\ d.level >= 1 /\ d.parent = d.caller
    /\ \E d \in G.parents : d.found /\ ~d.pkg /\ d.level >= 1
    /\ \E d \in G.parents : d.found /\ ~d.pkg /\ d.level = -1

\* C17 (absolute imports ignore the importing package): a unit whose
\* one wildcard import is the absolute "from top import *" has, once its
\* scan is over, the global names of the top-level module top among its
\* own, also when the unit is a package with a submodule named top.
C17_AbsoluteWildcard ==
    <<"ap">> \in DOMAIN G.nodes /\ G.nodes[<<"ap">>] \in G.scandone
       => /\ <<"top">> \in DOMAIN G.nodes
          /\ HasEdge(G, <<"ap">>, <<"top">>)
          /\ G.gn[G.objs[G.nodes[<<"top">>]].globalnames]
                \subseteq G.gn[G.objs[G.nodes[<<"ap">>]].globalnames]

\* C18 (head lookup order): find_head_package tries parent.head first and
\* the bare head second, the second only when a parent was given and the
\* first missed; when the submodule parent.head can be had the call returns
\* it and not the top-level module; "No module named" is raised only when
\* every attempt missed.
C18_HeadLookupOrder ==
    \A h \in G.heads :
       /\ h.tried2 => h.parent # RootIdent /\ ~h.hit1
       /\ h.hit1 => /\ h.exc = NoExc
                    /\ \/ h.ret = h.qualified
                       \/ /\ h.qualified \in DOMAIN replacePackageMap
                          /\ h.ret = replacePackageMap[h.qualified]
       /\ h.sub /\ h.exc = NoExc => h.hit1
       /\ h.exc = "ImportError: No module named" =>
             ~h.hit1 /\ ~h.sub /\ (h.parent # RootIdent => h.tried2)
       /\ h.exc = NoExc /\ ~h.hit1 => h.tried2 /\ Len(h.ret) = 1

C18_Witness ==
    /\ \E h \in G.heads : h.sub /\ h.hit1 /\ h.head = "top" /\ h.ret = <<"ap", "top">>
    /\ \E h \in G.heads : h.tried2 /\ h.exc = NoExc
    /\ \E h \in G.heads : h.tried2 /\ h.exc = "ImportError: No module named"

\* C19 (wildcard handling for every event kind): the unit q.rs, whose one
\* event is the relative "from .p2 import *", has after its scan the global
\* names of its target q.p2 among its own.
C19_RelativeWildcard ==
    \A u \in {<<"q", "rs">>, <<"qq", "rs">>} :
       u \in DOMAIN G.nodes /\ G.nodes[u] \in G.scandone =>
          LET t == Append(DropLast(u, 1), "p2")
          IN /\ t \in DOMAIN G.nodes
             /\ G.gn[G.objs[G.nodes[t]].globalnames]
                   \subseteq G.gn[G.objs[G.nodes[u]].globalnames]

\* C20 (package search path): a package found in directory d and
\* materialized under q (the substitute registered for the requested name,
\* or else that name) gets as search path the paths registered for q when d
\* is one of them, and else d followed by them; its node is keyed by q, and
\* a substituted name that had no node before gets none.
C20_PackageSearchPath ==
    \A r \in G.packages :
       /\ r.key = (IF r.substitute # <<>> THEN r.substitute ELSE r.requested)
       /\ r.cls = "Package"
       /\ r.path = (IF r.dir \in Range(r.overrides) THEN r.overrides
                    ELSE <<r.dir>> \o r.overrides)
       /\ r.substitute # <<>> /\ ~r.oldbefore => ~r.old

C20_Witness ==
    /\ last.op = "import_hook" /\ last.name = <<"pkg", "sub">>
    /\ \E r \in G.packages :
          /\ r.requested = <<"pkg">> /\ r.dir = "/lib/pkg"
          /\ r.overrides = <<"/lib/pkg">> /\ r.path = <<"/lib/pkg">>
    /\ <<"pkg", "sub">> \in DOMAIN G.nodes

\* C21 (global-name set contents): every name in the global-name set of a
\* unit is assigned at the top level of the unit's code or is a global name
\* of another node (from which a wildcard import can have merged it); a
\* name stored only in a nested code object of the unit is not in the set.
C21_GlobalNames ==
    \A m \in DOMAIN G.objs :
       G.objs[m].hascode /\ G.objs[m].cls # "AliasNode" =>
          G.gn[G.objs[m].globalnames]
             \subseteq Assigned(G.objs[m])
                        \cup UNION {G.gn[G.objs[t].globalnames] :
                                       t \in {o \in DOMAIN G.objs :
                                                 G.objs[o].globalnames # G.objs[m].globalnames}}

\* C22 (alias materialization): an AliasNode is keyed by the alias
\* identifier, is linked to its target, and holds the namespace, the search
\* path, the global-name set and the wildcard-origin set the target had
\* when the alias was created (an AliasNode is never scanned, so what it
\* holds of its own stays as it was created).
C22_AliasMaterialization ==
    \A a \in DOMAIN G.aliased :
       LET t == G.aliased[a].target
       IN /\ G.objs[a].cls = "AliasNode"
          /\ G.objs[a].graphident \in DOMAIN config.implies
          /\ G.nodes[G.objs[a].graphident] = a
          /\ HasEdge(G, G.objs[a].graphident, G.objs[t].graphident)
          /\ G.objs[a].namespace = G.objs[t].namespace
          /\ G.objs[a].globalnames = G.objs[t].globalnames
          /\ G.objs[a].packagepath = G.aliased[a].packagepath
          /\ G.objs[a].starimports = G.aliased[a].starimports

\* C23 (implied dependencies): once findNode has materialized an identifier
\* registered with a list of implied dependencies, the identifier's node is
\* linked to the node of the module named d for every d of the list,
\* whatever package the identifier lives in.
C23_ImpliedDependencies ==
    \A n \in G.lazydone \cap DOMAIN config.implies :
       config.implies[n].kind = "implies" /\ n \notin config.excludes
       /\ n \in DOMAIN G.nodes =>
          \A i \in DOMAIN config.implies[n].deps :
             /\ config.implies[n].deps[i] \in DOMAIN G.nodes
             /\ HasEdge(G, n, config.implies[n].deps[i])

\* C24 (registry and graph stay disjoint): no identifier is at once an
\* entry of the lazy registry and the key of a Node.
C24_RegistryDisjoint ==
    DOMAIN G.lazynodes \cap DOMAIN G.nodes = {}

\* a package was materialized under a substitute for which the registry
\* held an entry: the entry is consumed and the node is in the graph
C24_Witness ==
    /\ <<"qq">> \in DOMAIN LazyAtInit
    /\ <<"qq">> \in DOMAIN G.nodes
    /\ \E r \in G.packages : r.requested = <<"q">> /\ r.key = <<"qq">>

\* the package a relative import of the given level made by the node
\* keyed c starts from
AncestorOf(g, c, level) ==
    DropLast(g.objs[g.nodes[c]].identifier,
             IF HasPackagePath(g.objs[g.nodes[c]]) THEN level - 1 ELSE level)

\* C25 (explicit relative imports stay inside the ancestor package): every
\* node an import with level >= 1 and a non-empty target resolved to for a
\* module of a package is keyed by an identifier that starts with the
\* identifier of the package found by ascending level steps.
C25_RelativeStaysInside ==
    \A h \in G.hooks :
       /\ h.level >= 1 /\ h.exc = NoExc /\ h.name # <<>>
       /\ h.caller \in DOMAIN G.nodes
       /\ G.objs[G.nodes[h.caller]].cls # "Script"
       => \A r \in h.ret : IsPrefix(AncestorOf(G, h.caller, h.level), r)

\* every namespace entry that holds a node holds the node identified by the
\* owner's identifier followed by the short name
NamespaceWellKeyed ==
    \A p \in DOMAIN G.objs :
       \A s \in DOMAIN G.ns[G.objs[p].namespace] :
          NsGet(G, p, s) # None =>
             G.objs[NsGet(G, p, s)].identifier = Append(G.objs[p].identifier, s)

\* a step leaves every namespace entry that holds a node as it is
NamespaceEntriesKept ==
    \A p \in DOMAIN G.objs :
       \A s \in DOMAIN G.ns[G.objs[p].namespace] :
          NsGet(G, p, s) # None => NsGet(G', p, s) = NsGet(G, p, s)

\* C26 (namespace consistency): in every reachable state a namespace entry
\* p[s] that holds a node holds the node whose identifier is p's identifier,
\* '.', s; and an entry that holds a node is never overwritten with an empty
\* value or with another node.
C26_NamespaceConsistency == []NamespaceWellKeyed /\ [][NamespaceEntriesKept]_vars

C26_EntriesKept == [][NamespaceEntriesKept]_vars

RECURSIVE LocationPairs(_, _)
\* the (location before, location after) pairs of a code handle and of every
\* code handle nested in its constant pool
LocationPairs(co, out) ==
    {<<co.co_filename, out.co_filename>>}
    \cup UNION {LocationPairs(co.co_consts[i].v, out.co_consts[i].v) :
                   i \in {j \in DOMAIN co.co_consts : co.co_consts[j].k = "code"}}

RECURSIVE SameButLocations(_, _)
\* out is co up to the locations of the code handles
SameButLocations(co, out) ==
    /\ out.co_code = co.co_code
    /\ DOMAIN out.co_consts = DOMAIN co.co_consts
    /\ \A i \in DOMAIN co.co_consts :
          /\ out.co_consts[i].k = co.co_consts[i].k
          /\ IF co.co_consts[i].k = "code"
             THEN SameButLocations(co.co_consts[i].v, out.co_consts[i].v)
             ELSE out.co_consts[i].v = co.co_consts[i].v

\* the rules whose from-prefix, closed by a separator, starts the location
Hits(rules, loc) ==
    {i \in DOMAIN rules : StartsWith(loc, JoinEmpty(rules[i][1]))}

\* loc rewritten by the first rule that hits it, and loc itself if none does
ByFirstRule(rules, loc) ==
    IF Hits(rules, loc) = {} THEN loc
    ELSE LET i == CHOOSE j \in Hits(rules, loc) : \A k \in Hits(rules, loc) : j <= k
         IN Replaced(loc, JoinEmpty(rules[i][1]), JoinEmpty(rules[i][2]))

\* C27 as stated (path rewriting): the location of the handle and of every
\* nested handle is rewritten by only the first rule whose from-prefix is a
\* prefix of the location up to a path boundary, and a location that no rule
\* matches is left exactly unchanged.
C27_AsStated ==
    last.op = "replace_paths_in_code" =>
       /\ SameButLocations(last.co, last.ret)
       /\ \A pr \in LocationPairs(last.co, last.ret) :
             pr[2] = ByFirstRule(config.replace_paths, pr[1])

\* C27 (path rewriting, amended): each location is first normalised; the
\* normalised location is rewritten by only the first rule whose from-prefix
\* is a prefix of it up to a path boundary, and is the result when no rule
\* matches.
C27_PathRewriting ==
    last.op = "replace_paths_in_code" =>
       /\ SameButLocations(last.co, last.ret)
       /\ \A pr \in LocationPairs(last.co, last.ret) :
             pr[2] = ByFirstRule(config.replace_paths, normpath(pr[1]))

C27_Witness ==
    /\ last.op = "replace_paths_in_code"
    /\ Cardinality(LocationPairs(last.co, last.ret)) = 2
    /\ \E pr \in LocationPairs(last.co, last.ret) :
          /\ Cardinality(Hits(config.replace_paths, normpath(pr[1]))) = 2
          /\ normpath(pr[1]) # pr[1]
          /\ pr[2] # normpath(pr[1])
    /\ \E pr \in LocationPairs(last.co, last.ret) :
          /\ Hits(config.replace_paths, normpath(pr[1])) = {}
          /\ pr[2] # pr[1]

====
